---- MODULE Spec2Model ----
(***************************************************************************)
(* Model of UOCFlix/src/user.c: the tUser record (three heap strings and a *)
(* favorites stack) and the tUserTable dynamic array of users.             *)
(*                                                                         *)
(* The C heap is modelled explicitly.  A block id names one allocation     *)
(* (not its address): malloc takes the lowest unused id, realloc keeps the *)
(* id of the block it resizes, free returns the id to the unused pool.     *)
(* An allocation fails when the call's fault ordinal says so; a call that  *)
(* would need more than HeapSize blocks is outside the model.  A step that *)
(* would dereference NULL, read indeterminate memory or free a block twice *)
(* sets ub and stops the program there.                                    *)
(*                                                                         *)
(* The program never compares or prints a pointer, so every state is kept  *)
(* with its live blocks renumbered in the order a walk from the table and  *)
(* the user objects meets them (Canon); blocks no pointer leads to any     *)
(* more stay live, keep their kind and lose their contents.                *)
(***************************************************************************)
EXTENDS Integers, Sequences, FiniteSets, TLC

VARIABLES heap, table, usr, op, ub, faults, memFailed, aux

vars == <<heap, table, usr, op, ub, faults, memFailed, aux>>

\* ------------------------------------------------------------------ bounds
HeapSize == 10
MaxFailAt == 4
MaxFailedCalls == 1
MaxBuildOps == 4
GenreHeapSize == 12
MaxIndet == 3
MaxNameLen == 4
NUsers == 2

\* --------------------------------------------------------------- constants
NULL == 0
INDET == -1
DANGLING == -2
NumGenres == 8
\* <limits.h>: the least value the C standard allows for UINT_MAX; an index
\* that wraps to it lies beyond every name, as with 4294967295.
UINT_MAX == 65535
GENRE_NOT_FOUND == -1

\* The block ids of the heap the run started with.
Ids == DOMAIN heap

OK == "OK"
ERR_MEMORY_ERROR == "ERR_MEMORY_ERROR"
ERR_DUPLICATED == "ERR_DUPLICATED"
ERR_NOT_FOUND == "ERR_NOT_FOUND"

\* Text a freshly malloc'ed string block holds before strcpy fills it.
UNINIT == <<"?">>

Usernames == {<<"a">>, <<"b">>, <<"c">>}
Names == {<<"n">>, <<"N">>}
Mails == {<<"m">>}
Films == {[genre |-> 0], [genre |-> 1]}

\* The caller's fully initialised tUser passed to add / remove; only its
\* three strings are read.
ArgUsers == [username : Usernames, name : Names, mail : Mails]

\* The texts stand-alone tUser objects are initialised from.
UserArgs ==
    {[username |-> <<"a">>, name |-> <<"n">>, mail |-> <<"m">>],
     [username |-> <<"b">>, name |-> <<"N">>, mail |-> <<"m">>]}

\* -------------------------------------------------------------------- heap
FreeBlock ==
    [live |-> FALSE, kind |-> "none", text |-> <<>>, e |-> [genre |-> 0],
     next |-> NULL, elems |-> <<>>]

StrBlock(txt) == [FreeBlock EXCEPT !.live = TRUE, !.kind = "str", !.text = txt]

FavBlock(film) == [FreeBlock EXCEPT !.live = TRUE, !.kind = "fav", !.e = film]

NodeBlock(film, nxt) ==
    [FreeBlock EXCEPT !.live = TRUE, !.kind = "node", !.e = film, !.next = nxt]

TableBlock(es) == [FreeBlock EXCEPT !.live = TRUE, !.kind = "table", !.elems = es]

\* An object of type tUser whose fields have never been assigned.
UninitUser ==
    [username |-> INDET, name |-> INDET, mail |-> INDET,
     favorites |-> [first |-> INDET]]

\* Allocator state threaded through one call: the heap, the number of
\* allocation requests made so far in the call, the ordinal of the request
\* that is made to fail (0: none), and what went wrong so far.
Mem(h, failAt) ==
    [h |-> h, n |-> 0, f |-> failAt, failed |-> FALSE, ub |-> FALSE,
     oom |-> FALSE]

HasFree(h) == \E p \in DOMAIN h : ~h[p].live

Fresh(h) == CHOOSE p \in DOMAIN h : ~h[p].live /\ \A q \in DOMAIN h : q < p => h[q].live

malloc(m, blk) ==
    LET k == m.n + 1 IN
    IF k = m.f
    THEN [m |-> [m EXCEPT !.n = k, !.failed = TRUE], p |-> NULL]
    ELSE IF ~HasFree(m.h)
    THEN [m |-> [m EXCEPT !.n = k, !.failed = TRUE, !.oom = TRUE], p |-> NULL]
    ELSE LET p == Fresh(m.h) IN
         [m |-> [m EXCEPT !.n = k, !.h[p] = blk], p |-> p]

\* realloc of a tUser array to n slots: on success the block keeps its
\* contents up to the smaller of both sizes and new slots are indeterminate;
\* on failure the old block is left untouched and NULL is returned.
Resize(es, n) ==
    [i \in 1..n |-> IF i <= Len(es) THEN es[i] ELSE UninitUser]

realloc(m, p, n) ==
    LET k == m.n + 1 IN
    IF k = m.f
    THEN [m |-> [m EXCEPT !.n = k, !.failed = TRUE], p |-> NULL]
    ELSE [m |-> [m EXCEPT !.n = k, !.h[p].elems = Resize(m.h[p].elems, n)],
          p |-> p]

\* free(p), p not NULL: releasing a block that is not live is undefined.
free(m, p) ==
    IF p \in DOMAIN m.h /\ m.h[p].live
    THEN [m EXCEPT !.h[p] = FreeBlock]
    ELSE [m EXCEPT !.ub = TRUE]

\* p points to a live string block whose characters have been written.
ValidStr(h, p) ==
    p \in DOMAIN h /\ h[p].live /\ h[p].kind = "str" /\ h[p].text # UNINIT

\* ------------------------------------------------ favorites stack (favorite.h)
favoriteStack_create == [first |-> NULL]

favoriteStack_empty(s) == s.first = NULL

favoriteStack_push(m, s, fav) ==
    LET a == malloc(m, NodeBlock(fav, s.first)) IN
    IF a.p = NULL THEN [m |-> a.m, s |-> s]
    ELSE [m |-> a.m, s |-> [first |-> a.p]]

favoriteStack_pop(m, s) ==
    IF s.first \notin DOMAIN m.h \/ ~m.h[s.first].live
    THEN [m |-> [m EXCEPT !.ub = TRUE], s |-> s]
    ELSE [m |-> free(m, s.first), s |-> [first |-> m.h[s.first].next]]

RECURSIVE favoriteStack_free(_, _)
favoriteStack_free(m, s) ==
    IF m.ub THEN [m |-> m, s |-> s]
    ELSE IF favoriteStack_empty(s) THEN [m |-> m, s |-> s]
    ELSE LET r == favoriteStack_pop(m, s) IN favoriteStack_free(r.m, r.s)

\* favoriteStack_duplicate: a new stack with copies of the nodes from p on, in
\* the same order.
RECURSIVE DuplicateFrom(_, _)
DuplicateFrom(m, p) ==
    IF p = NULL THEN [m |-> m, s |-> favoriteStack_create]
    ELSE IF p \notin DOMAIN m.h THEN [m |-> [m EXCEPT !.ub = TRUE], s |-> favoriteStack_create]
    ELSE IF ~m.h[p].live THEN [m |-> [m EXCEPT !.ub = TRUE], s |-> favoriteStack_create]
    ELSE LET r == DuplicateFrom(m, m.h[p].next) IN
         favoriteStack_push(r.m, r.s, m.h[p].e)

favoriteStack_duplicate(m, src) == DuplicateFrom(m, src.first)

\* ------------------------------------------------------------------- tUser
\* user_init with the mail buffer filled from name.
user_init_mailFromName(m, object, username, name, mail) ==
    LET a1 == malloc(m, StrBlock(UNINIT))
        a2 == malloc(a1.m, StrBlock(UNINIT))
        a3 == malloc(a2.m, StrBlock(UNINIT))
        o == [object EXCEPT !.username = a1.p, !.name = a2.p, !.mail = a3.p]
    IN  IF a1.p = NULL \/ a2.p = NULL \/ a3.p = NULL
        THEN [m |-> a3.m, u |-> o, ret |-> ERR_MEMORY_ERROR]
        ELSE [m |-> [a3.m EXCEPT !.h[a1.p].text = username,
                                 !.h[a2.p].text = name,
                                 !.h[a3.p].text = name],
              u |-> [o EXCEPT !.favorites = favoriteStack_create],
              ret |-> OK]

\* user_init: username, name, mail are the texts the three arguments point to.
user_init(m, object, username, name, mail) ==
    LET a1 == malloc(m, StrBlock(UNINIT))
        a2 == malloc(a1.m, StrBlock(UNINIT))
        a3 == malloc(a2.m, StrBlock(UNINIT))
        o == [object EXCEPT !.username = a1.p, !.name = a2.p, !.mail = a3.p]
    IN  IF a1.p = NULL \/ a2.p = NULL \/ a3.p = NULL
        THEN [m |-> a3.m, u |-> o, ret |-> ERR_MEMORY_ERROR]
        ELSE [m |-> [a3.m EXCEPT !.h[a1.p].text = username,
                                 !.h[a2.p].text = name,
                                 !.h[a3.p].text = mail],
              u |-> [o EXCEPT !.favorites = favoriteStack_create],
              ret |-> OK]

FreeStr(m, p) == IF p = NULL THEN m ELSE free(m, p)

\* user_free that releases the strings without resetting the pointers.
user_free_keepPointers(m, object) ==
    LET m1 == FreeStr(m, object.username)
        m2 == FreeStr(m1, object.name)
        m3 == FreeStr(m2, object.mail)
        r == favoriteStack_free(m3, object.favorites)
    IN  [m |-> r.m, u |-> [object EXCEPT !.favorites = r.s]]

user_free(m, object) ==
    LET m1 == FreeStr(m, object.username)
        m2 == FreeStr(m1, object.name)
        m3 == FreeStr(m2, object.mail)
        r == favoriteStack_free(m3, object.favorites)
    IN  [m |-> r.m,
         u |-> [username |-> NULL, name |-> NULL, mail |-> NULL,
                favorites |-> r.s]]

\* user_equals, on the texts the pointers of the two users lead to.
user_equals(user1, user2) ==
    IF user1.username # user2.username THEN FALSE
    ELSE IF user1.name # user2.name THEN FALSE
    ELSE IF user1.mail # user2.mail THEN FALSE
    ELSE TRUE

\* src's strings can be read
ValidUser(h, u) ==
    ValidStr(h, u.username) /\ ValidStr(h, u.name) /\ ValidStr(h, u.mail)

\* user_cpy passing src's name and username to user_init in exchanged order.
user_cpy_swapped(m, dst, src) ==
    LET f == user_free(m, dst) IN
    IF f.m.ub \/ ~ValidUser(f.m.h, src)
    THEN [m |-> [f.m EXCEPT !.ub = TRUE], u |-> f.u, ret |-> OK]
    ELSE LET r == user_init(f.m, f.u, f.m.h[src.name].text,
                            f.m.h[src.username].text, f.m.h[src.mail].text)
         IN  [m |-> r.m, u |-> r.u, ret |-> OK]

\* user_cpy without the user_free of dst.
user_cpy_noFree(m, dst, src) ==
    IF ~ValidUser(m.h, src)
    THEN [m |-> [m EXCEPT !.ub = TRUE], u |-> dst, ret |-> OK]
    ELSE LET r == user_init(m, dst, m.h[src.username].text,
                            m.h[src.name].text, m.h[src.mail].text)
         IN  [m |-> r.m, u |-> r.u, ret |-> OK]

user_cpy(m, dst, src) ==
    LET f == user_free(m, dst) IN
    IF f.m.ub \/ ~ValidUser(f.m.h, src)
    THEN [m |-> [f.m EXCEPT !.ub = TRUE], u |-> f.u, ret |-> OK]
    ELSE LET r == user_init(f.m, f.u, f.m.h[src.username].text,
                            f.m.h[src.name].text, f.m.h[src.mail].text)
         IN  [m |-> r.m, u |-> r.u, ret |-> OK]

user_addFavorite(m, object, film) ==
    LET a == malloc(m, FavBlock(film)) IN
    IF a.p = NULL THEN [m |-> a.m, u |-> object, ret |-> ERR_MEMORY_ERROR]
    ELSE LET r == favoriteStack_push(a.m, object.favorites, a.m.h[a.p].e) IN
         [m |-> r.m, u |-> [object EXCEPT !.favorites = r.s], ret |-> OK]

\* <ctype.h> in the C locale, on the characters names are made of.
isblank(c) == c \in {" ", "\t"}

toupper(c) == IF c = "a" THEN "A" ELSE c

tolower(c) == IF c = "A" THEN "a" ELSE c

\* name[i] for a C index i: the characters, then the terminating NUL; beyond
\* it the read is outside the string.
NUL == "NUL"

OutOfString == "OutOfString"

CharAt(name, i) ==
    IF i < Len(name) THEN name[i + 1]
    ELSE IF i = Len(name) THEN NUL
    ELSE OutOfString

\* while (isblank(name[nameStart])) nameStart++;
RECURSIVE SkipForward(_, _)
SkipForward(name, nameStart) ==
    IF isblank(CharAt(name, nameStart)) THEN SkipForward(name, nameStart + 1)
    ELSE nameStart

\* while (isblank(name[nameEnd])) nameEnd--;  on unsigned int.
RECURSIVE SkipBackward(_, _)
SkipBackward(name, nameEnd) ==
    IF CharAt(name, nameEnd) = OutOfString THEN [ub |-> TRUE, nameEnd |-> nameEnd]
    ELSE IF isblank(CharAt(name, nameEnd))
         THEN SkipBackward(name, IF nameEnd = 0 THEN UINT_MAX ELSE nameEnd - 1)
    ELSE [ub |-> FALSE, nameEnd |-> nameEnd]

\* for (i = nameStart, j = 0; i <= nameEnd; i++, j++) trimmedName[j] = name[i];
RECURSIVE CopyLoop(_, _, _, _)
CopyLoop(name, i, nameEnd, trimmedName) ==
    IF i > nameEnd THEN trimmedName
    ELSE CopyLoop(name, i + 1, nameEnd, Append(trimmedName, CharAt(name, i)))

\* The capitalising loop with startOfWord never set again after the first word.
RECURSIVE CapitalizeLoop_firstWordOnly(_, _, _)
CapitalizeLoop_firstWordOnly(name, i, startOfWord) ==
    IF i >= Len(name) THEN name
    ELSE IF isblank(CharAt(name, i)) THEN CapitalizeLoop_firstWordOnly(name, i + 1, startOfWord)
    ELSE IF startOfWord
         THEN CapitalizeLoop_firstWordOnly([name EXCEPT ![i + 1] = toupper(name[i + 1])],
                                           i + 1, FALSE)
         ELSE CapitalizeLoop_firstWordOnly([name EXCEPT ![i + 1] = tolower(name[i + 1])],
                                           i + 1, FALSE)

\* for (i = 0; i < strlen(name); i++) { ... } of user_trimCapitalizeName.
RECURSIVE CapitalizeLoop(_, _, _)
CapitalizeLoop(name, i, startOfWord) ==
    IF i >= Len(name) THEN name
    ELSE IF isblank(CharAt(name, i)) THEN CapitalizeLoop(name, i + 1, TRUE)
    ELSE IF startOfWord
         THEN CapitalizeLoop([name EXCEPT ![i + 1] = toupper(name[i + 1])], i + 1, FALSE)
         ELSE CapitalizeLoop([name EXCEPT ![i + 1] = tolower(name[i + 1])], i + 1, FALSE)

user_trimCapitalizeName(m, object) ==
    IF ~ValidStr(m.h, object.name)
    THEN [m |-> [m EXCEPT !.ub = TRUE], u |-> object, ret |-> OK]
    ELSE
    LET name == m.h[object.name].text
        nameStart == SkipForward(name, 0)
        back == SkipBackward(name, IF Len(name) = 0 THEN UINT_MAX ELSE Len(name) - 1)
        a == malloc(m, StrBlock(UNINIT))
        trimmedName == CopyLoop(name, nameStart, back.nameEnd, <<>>)
        f == free(a.m, object.name)
    IN  IF back.ub THEN [m |-> [m EXCEPT !.ub = TRUE], u |-> object, ret |-> OK]
        ELSE IF a.p = NULL THEN [m |-> a.m, u |-> object, ret |-> ERR_MEMORY_ERROR]
        ELSE [m |-> [f EXCEPT !.h[a.p].text = CapitalizeLoop(trimmedName, 0, TRUE)],
              u |-> [object EXCEPT !.name = a.p],
              ret |-> OK]

\* The while loop of user_getFavoriteGenre: counts the genre of the first
\* node of s and pops it, until s is empty.
RECURSIVE CountLoop(_, _, _, _)
CountLoop(m, s, genreOcurrences, tmpGenre) ==
    IF m.ub \/ favoriteStack_empty(s)
    THEN [m |-> m, s |-> s, genreOcurrences |-> genreOcurrences, tmpGenre |-> tmpGenre]
    ELSE IF s.first \notin DOMAIN m.h
    THEN [m |-> [m EXCEPT !.ub = TRUE], s |-> s,
          genreOcurrences |-> genreOcurrences, tmpGenre |-> tmpGenre]
    ELSE LET g == m.h[s.first].e.genre
             r == favoriteStack_pop(m, s)
         IN  IF g \notin 0..(NumGenres - 1)
             THEN [m |-> [m EXCEPT !.ub = TRUE], s |-> s,
                   genreOcurrences |-> genreOcurrences, tmpGenre |-> g]
             ELSE CountLoop(r.m, r.s,
                            [genreOcurrences EXCEPT ![g] = genreOcurrences[g] + 1], g)

\* The for loop of user_getFavoriteGenre from index i on.
RECURSIVE MaxLoop(_, _, _, _)
MaxLoop(genreOcurrences, i, tmpGenre, maxOcurrences) ==
    IF i >= NumGenres THEN tmpGenre
    ELSE IF genreOcurrences[i] > maxOcurrences
         THEN MaxLoop(genreOcurrences, i + 1, i, genreOcurrences[i])
         ELSE MaxLoop(genreOcurrences, i + 1, tmpGenre, maxOcurrences)

\* user_getFavoriteGenre draining object's own stack instead of a duplicate.
user_getFavoriteGenre_noDuplicate(m, object, maxOcurrences) ==
    LET w == CountLoop(m, object.favorites, [g \in 0..(NumGenres - 1) |-> 0],
                       GENRE_NOT_FOUND)
    IN  [m |-> w.m, u |-> [object EXCEPT !.favorites = w.s],
         ret |-> MaxLoop(w.genreOcurrences, 0, w.tmpGenre, maxOcurrences)]

\* user_getFavoriteGenre; maxOcurrences is the value the uninitialised local
\* variable of that name happens to hold.
user_getFavoriteGenre(m, object, maxOcurrences) ==
    LET d == favoriteStack_duplicate(m, object.favorites)
        w == CountLoop(d.m, d.s, [g \in 0..(NumGenres - 1) |-> 0], GENRE_NOT_FOUND)
    IN  [m |-> w.m, u |-> object,
         ret |-> MaxLoop(w.genreOcurrences, 0, w.tmpGenre, maxOcurrences)]

\* -------------------------------------------------------------- tUserTable
EmptyTable == [size |-> 0, elements |-> NULL]

userTable_init(t) == [t EXCEPT !.size = 0, !.elements = NULL]

userTable_free(m, t) ==
    LET m1 == IF t.elements # NULL THEN free(m, t.elements) ELSE m IN
    [m |-> m1, t |-> [t EXCEPT !.elements = NULL, !.size = 0]]

\* table->elements[i] (1-based here) can be read
Slot(h, t, i) == t.elements \in DOMAIN h /\ h[t.elements].live /\ i <= Len(h[t.elements].elems)

\* The scan of userTable_find stopping one element early (i < size - 1).
RECURSIVE FindFrom_skipLast(_, _, _, _)
FindFrom_skipLast(h, t, username, i) ==
    IF i > t.size - 1 THEN [ub |-> FALSE, idx |-> 0]
    ELSE IF ~Slot(h, t, i) THEN [ub |-> TRUE, idx |-> 0]
    ELSE IF ~ValidStr(h, h[t.elements].elems[i].username) THEN [ub |-> TRUE, idx |-> 0]
    ELSE IF h[h[t.elements].elems[i].username].text = username
         THEN [ub |-> FALSE, idx |-> i]
    ELSE FindFrom_skipLast(h, t, username, i + 1)

\* userTable_find: the 1-based index of the element returned, 0 for NULL.
RECURSIVE FindFrom(_, _, _, _)
FindFrom(h, t, username, i) ==
    IF i > t.size THEN [ub |-> FALSE, idx |-> 0]
    ELSE IF ~Slot(h, t, i) THEN [ub |-> TRUE, idx |-> 0]
    ELSE IF ~ValidStr(h, h[t.elements].elems[i].username) THEN [ub |-> TRUE, idx |-> 0]
    ELSE IF h[h[t.elements].elems[i].username].text = username
         THEN [ub |-> FALSE, idx |-> i]
    ELSE FindFrom(h, t, username, i + 1)

userTable_find(h, t, username) == FindFrom(h, t, username, 1)

userTable_size(t) == t.size

\* The loop of userTable_equals comparing the tables position by position
\* instead of searching table 1 for each username of table 2.
RECURSIVE EqualsFrom_positional(_, _, _, _, _)
EqualsFrom_positional(h1, t1, h2, t2, i) ==
    IF i > t1.size THEN [ub |-> FALSE, ret |-> TRUE]
    ELSE IF ~Slot(h2, t2, i) \/ ~Slot(h1, t1, i) THEN [ub |-> TRUE, ret |-> FALSE]
    ELSE IF ~ValidStr(h2, h2[t2.elements].elems[i].username)
            \/ ~ValidStr(h1, h1[t1.elements].elems[i].username)
         THEN [ub |-> TRUE, ret |-> FALSE]
    ELSE IF h1[h1[t1.elements].elems[i].username].text
               # h2[h2[t2.elements].elems[i].username].text
         THEN [ub |-> FALSE, ret |-> FALSE]
    ELSE EqualsFrom_positional(h1, t1, h2, t2, i + 1)

\* The loop of userTable_equals from index i (1-based) on; table 1 lives in
\* heap h1, table 2 in heap h2.
RECURSIVE EqualsFrom(_, _, _, _, _)
EqualsFrom(h1, t1, h2, t2, i) ==
    IF i > t1.size THEN [ub |-> FALSE, ret |-> TRUE]
    ELSE IF ~Slot(h2, t2, i) THEN [ub |-> TRUE, ret |-> FALSE]
    ELSE IF ~ValidStr(h2, h2[t2.elements].elems[i].username)
         THEN [ub |-> TRUE, ret |-> FALSE]
    ELSE LET f == userTable_find(h1, t1, h2[h2[t2.elements].elems[i].username].text) IN
         IF f.ub THEN [ub |-> TRUE, ret |-> FALSE]
         ELSE IF f.idx = 0 THEN [ub |-> FALSE, ret |-> FALSE]
         ELSE EqualsFrom(h1, t1, h2, t2, i + 1)

userTable_equals(h1, t1, h2, t2) ==
    IF t1.size # t2.size THEN [ub |-> FALSE, ret |-> FALSE]
    ELSE EqualsFrom(h1, t1, h2, t2, 1)

\* userTable_add without the duplicate check.
userTable_add_noCheck(m, t, user) ==
    LET a == IF t.size = 0
             THEN malloc(m, TableBlock(<<UninitUser>>))
             ELSE realloc(m, t.elements, t.size + 1)
        t1 == [size |-> t.size + 1, elements |-> a.p]
    IN  IF t1.elements = NULL
        THEN [m |-> a.m, t |-> t1, ret |-> ERR_MEMORY_ERROR]
        ELSE LET r == user_init(a.m, a.m.h[a.p].elems[t1.size],
                                user.username, user.name, user.mail)
             IN  [m |-> [r.m EXCEPT !.h[a.p].elems[t1.size] = r.u],
                  t |-> t1, ret |-> OK]

userTable_add(m, t, user) ==
    LET f == userTable_find(m.h, t, user.username) IN
    IF f.ub THEN [m |-> [m EXCEPT !.ub = TRUE], t |-> t, ret |-> OK]
    ELSE IF f.idx # 0 THEN [m |-> m, t |-> t, ret |-> ERR_DUPLICATED]
    ELSE LET a == IF t.size = 0
                  THEN malloc(m, TableBlock(<<UninitUser>>))
                  ELSE realloc(m, t.elements, t.size + 1)
             t1 == [size |-> t.size + 1, elements |-> a.p]
         IN  IF t1.elements = NULL
             THEN [m |-> a.m, t |-> t1, ret |-> ERR_MEMORY_ERROR]
             ELSE LET r == user_init(a.m, a.m.h[a.p].elems[t1.size],
                                     user.username, user.name, user.mail)
                  IN  [m |-> [r.m EXCEPT !.h[a.p].elems[t1.size] = r.u],
                       t |-> t1, ret |-> OK]

\* The for loop of userTable_remove from index i (1-based) on.  stop is set
\* when the loop returns ERR_MEMORY_ERROR from inside.
RECURSIVE RemoveLoop(_, _, _, _, _)
RemoveLoop(m, t, username, i, found) ==
    IF m.ub \/ i > t.size THEN [m |-> m, found |-> found, stop |-> FALSE]
    ELSE IF ~Slot(m.h, t, i)
         THEN [m |-> [m EXCEPT !.ub = TRUE], found |-> found, stop |-> FALSE]
    ELSE LET es == m.h[t.elements].elems IN
         IF found
         THEN LET c == user_cpy(m, es[i - 1], es[i])
                  m1 == [c.m EXCEPT !.h[t.elements].elems[i - 1] = c.u]
              IN  IF c.ret = ERR_MEMORY_ERROR
                  THEN [m |-> m1, found |-> found, stop |-> TRUE]
                  ELSE RemoveLoop(m1, t, username, i + 1, found)
         ELSE IF ~ValidStr(m.h, es[i].username)
              THEN [m |-> [m EXCEPT !.ub = TRUE], found |-> found, stop |-> FALSE]
         ELSE IF m.h[es[i].username].text = username
              THEN RemoveLoop(m, t, username, i + 1, TRUE)
         ELSE RemoveLoop(m, t, username, i + 1, found)

\* The end of userTable_remove shrinking the table whether or not the
\* element was found.
RemoveShrink_always(m, t, found) ==
    IF t.size - 1 <= 0
    THEN [m |-> m, t |-> [size |-> 0, elements |-> NULL], ret |-> OK]
    ELSE LET a == realloc(m, t.elements, t.size - 1)
             t1 == [size |-> t.size - 1, elements |-> a.p]
         IN  IF t1.elements = NULL
             THEN [m |-> a.m, t |-> t1, ret |-> ERR_MEMORY_ERROR]
             ELSE [m |-> a.m, t |-> t1, ret |-> OK]

\* What userTable_remove does once its loop has run to the end.
RemoveShrink(m, t, found) ==
    IF found
    THEN IF t.size - 1 = 0
         THEN [m |-> m, t |-> [size |-> 0, elements |-> NULL], ret |-> OK]
         ELSE LET a == realloc(m, t.elements, t.size - 1)
                  t1 == [size |-> t.size - 1, elements |-> a.p]
              IN  IF t1.elements = NULL
                  THEN [m |-> a.m, t |-> t1, ret |-> ERR_MEMORY_ERROR]
                  ELSE [m |-> a.m, t |-> t1, ret |-> OK]
    ELSE [m |-> m, t |-> t, ret |-> ERR_NOT_FOUND]

userTable_remove(m, t, user) ==
    LET l == RemoveLoop(m, t, user.username, 1, FALSE) IN
    IF l.m.ub THEN [m |-> l.m, t |-> t, ret |-> OK]
    ELSE IF l.stop THEN [m |-> l.m, t |-> t, ret |-> ERR_MEMORY_ERROR]
    ELSE RemoveShrink(l.m, t, l.found)

\* ---------------------------------------------------------- state storage
RECURSIVE Chain(_, _, _)
Chain(h, p, fuel) ==
    IF fuel = 0 \/ p \notin DOMAIN h THEN <<>>
    ELSE IF ~h[p].live THEN <<>>
    ELSE <<p>> \o Chain(h, h[p].next, fuel - 1)

LivePtr(h, p) == IF p \in DOMAIN h THEN (IF h[p].live THEN <<p>> ELSE <<>>) ELSE <<>>

\* The blocks a tUser leads to: its three strings, then its favorites nodes.
UserBlocks(h, u) ==
    LivePtr(h, u.username) \o LivePtr(h, u.name) \o LivePtr(h, u.mail)
        \o Chain(h, u.favorites.first, HeapSize)

RECURSIVE SlotsBlocks(_, _, _)
SlotsBlocks(h, es, i) ==
    IF i > Len(es) THEN <<>>
    ELSE UserBlocks(h, es[i]) \o SlotsBlocks(h, es, i + 1)

TableBlocks(h, t) ==
    IF LivePtr(h, t.elements) = <<>> THEN <<>>
    ELSE <<t.elements>> \o SlotsBlocks(h, h[t.elements].elems, 1)

RECURSIVE UsersBlocks(_, _, _)
UsersBlocks(h, us, i) ==
    IF i > NUsers THEN <<>>
    ELSE UserBlocks(h, us[i]) \o UsersBlocks(h, us, i + 1)

Range(sq) == {sq[i] : i \in 1..Len(sq)}

RECURSIVE Dedup(_)
Dedup(sq) ==
    IF sq = <<>> THEN <<>>
    ELSE LET d == Dedup(SubSeq(sq, 1, Len(sq) - 1)) IN
         IF sq[Len(sq)] \in Range(d) THEN d ELSE Append(d, sq[Len(sq)])

RECURSIVE Sorted(_)
Sorted(S) ==
    IF S = {} THEN <<>>
    ELSE LET x == CHOOSE y \in S : \A z \in S : y <= z IN <<x>> \o Sorted(S \ {x})

Reached(h, t, us) == Dedup(TableBlocks(h, t) \o UsersBlocks(h, us, 1))

Unreached(h, t, us) ==
    LET R == Range(Reached(h, t, us))
        K(k) == Sorted({p \in DOMAIN h : h[p].live /\ p \notin R /\ h[p].kind = k})
    IN  K("str") \o K("fav") \o K("node") \o K("table")

Canon(h, t, us) ==
    LET reached == Reached(h, t, us)
        order == reached \o Unreached(h, t, us)
        new(p) == CHOOSE q \in 1..Len(order) : order[q] = p
        ptr(p) == IF p \notin DOMAIN h THEN p
                  ELSE IF h[p].live THEN new(p) ELSE DANGLING
        user(u) == [username |-> ptr(u.username), name |-> ptr(u.name),
                    mail |-> ptr(u.mail),
                    favorites |-> [first |-> ptr(u.favorites.first)]]
        block(b) == [b EXCEPT !.next = ptr(b.next),
                              !.elems = [i \in 1..Len(b.elems) |-> user(b.elems[i])]]
    IN  [h |-> [q \in DOMAIN h |->
                  IF q > Len(order) THEN FreeBlock
                  ELSE IF q <= Len(reached) THEN block(h[order[q]])
                  ELSE [FreeBlock EXCEPT !.live = TRUE, !.kind = h[order[q]].kind]],
         t |-> [t EXCEPT !.elements = ptr(t.elements)],
         us |-> [i \in 1..NUsers |-> user(us[i])]]

\* ----------------------------------------------------------------- actions
\* The fault ordinals a call making at most k allocation requests may be run
\* with: faults is the number of calls of the run that may still see an
\* allocation fail, memFailed records that some call did.
FailAts(k) == IF faults > 0 THEN 0..k ELSE {0}

NoOp == [name |-> "init", arg |-> <<>>, ret |-> OK, failed |-> FALSE]

\* aux holds the second operand of calls that take two tables; it is unused
\* by the runs that work on one table or on stand-alone users.
NoAux == <<>>

Init ==
    /\ heap = [p \in 1..HeapSize |-> FreeBlock]
    /\ table = EmptyTable
    /\ usr = [i \in 1..NUsers |-> UninitUser]
    /\ op = NoOp
    /\ ub = FALSE
    /\ faults = MaxFailedCalls
    /\ memFailed = FALSE
    /\ aux = NoAux

\* The outcome of one call on the table: an undefined step stops the program
\* where it stands.
TableStep(name, arg, r) ==
    /\ ~r.m.oom
    /\ ub' = r.m.ub
    /\ LET c == Canon(r.m.h, r.t, usr) IN
          /\ heap' = IF r.m.ub THEN heap ELSE c.h
          /\ table' = IF r.m.ub THEN table ELSE c.t
    /\ op' = [name |-> name, arg |-> arg,
              ret |-> IF r.m.ub THEN "UB" ELSE r.ret, failed |-> r.m.failed]
    /\ faults' = IF r.m.failed THEN faults - 1 ELSE faults
    /\ memFailed' = (memFailed \/ r.m.failed)
    /\ UNCHANGED <<usr, aux>>

TableInit ==
    /\ ~ub
    /\ TableStep("tinit", <<>>,
                 [m |-> Mem(heap, 0), t |-> userTable_init(table), ret |-> OK])

TableFree ==
    /\ ~ub
    /\ LET r == userTable_free(Mem(heap, 0), table) IN
          TableStep("tfree", <<>>, [m |-> r.m, t |-> r.t, ret |-> OK])

TableAdd ==
    /\ ~ub
    /\ \E user \in ArgUsers, failAt \in FailAts(MaxFailAt) :
          TableStep("add", user, userTable_add(Mem(heap, failAt), table, user))

TableRemove ==
    /\ ~ub
    /\ \E username \in Usernames, failAt \in FailAts(MaxFailAt) :
          TableStep("remove", username,
                    userTable_remove(Mem(heap, failAt), table, [username |-> username]))

\* user_addFavorite on the element userTable_find returns for username.
TableAddFavorite ==
    /\ ~ub
    /\ \E username \in Usernames, film \in Films, failAt \in FailAts(2) :
          LET f == userTable_find(heap, table, username) IN
          /\ ~f.ub
          /\ f.idx # 0
          /\ LET r == user_addFavorite(Mem(heap, failAt),
                                       heap[table.elements].elems[f.idx], film)
             IN  TableStep("addFavorite", <<username, film>>,
                           [m |-> [r.m EXCEPT !.h[table.elements].elems[f.idx] = r.u],
                            t |-> table, ret |-> r.ret])

\* The table driven through init / free / add / remove, with up to
\* MaxFailedCalls calls in which an allocation fails.
Next == TableInit \/ TableFree \/ TableAdd \/ TableRemove

Spec == Init /\ [][Next]_vars

\* The table with favorites added to its elements, every allocation
\* succeeding.
InitFav ==
    /\ heap = [p \in 1..HeapSize |-> FreeBlock]
    /\ table = EmptyTable
    /\ usr = [i \in 1..NUsers |-> UninitUser]
    /\ op = NoOp
    /\ ub = FALSE
    /\ faults = 0
    /\ memFailed = FALSE
    /\ aux = NoAux

NextFav == TableFree \/ TableAdd \/ TableRemove \/ TableAddFavorite

SpecFav == InitFav /\ [][NextFav]_vars

\* Stand-alone tUser objects usr[1..NUsers] driven through user_init,
\* user_addFavorite and user_free.
Freed(u) ==
    u.username = NULL /\ u.name = NULL /\ u.mail = NULL /\ u.favorites.first = NULL

UserStep(name, arg, i, r) ==
    /\ ~r.m.oom
    /\ ub' = r.m.ub
    /\ LET c == Canon(r.m.h, table, [usr EXCEPT ![i] = r.u]) IN
          /\ heap' = IF r.m.ub THEN heap ELSE c.h
          /\ usr' = IF r.m.ub THEN usr ELSE c.us
    /\ op' = [name |-> name, arg |-> arg,
              ret |-> IF r.m.ub THEN "UB" ELSE r.ret, failed |-> r.m.failed]
    /\ faults' = IF r.m.failed THEN faults - 1 ELSE faults
    /\ memFailed' = (memFailed \/ r.m.failed)
    /\ UNCHANGED <<table, aux>>

\* user_init on an object that holds no storage: a fresh one or a freed one.
UserInit ==
    /\ ~ub
    /\ \E i \in 1..NUsers, user \in UserArgs, failAt \in FailAts(3) :
          /\ usr[i] = UninitUser \/ Freed(usr[i])
          /\ UserStep("user_init", <<i, user>>, i,
                      user_init(Mem(heap, failAt), usr[i],
                                user.username, user.name, user.mail))

\* user_free on an object user_init has been called on; the step records
\* whether the object was already in the freed state.
UserFree ==
    /\ ~ub
    /\ \E i \in 1..NUsers :
          /\ usr[i] # UninitUser
          /\ LET r == user_free(Mem(heap, 0), usr[i]) IN
                UserStep("user_free", <<i, Freed(usr[i])>>, i,
                         [m |-> r.m, u |-> r.u, ret |-> OK])

\* user_addFavorite on an object user_init has set up completely.
UserAddFavorite ==
    /\ ~ub
    /\ \E i \in 1..NUsers, film \in Films, failAt \in FailAts(2) :
          /\ ValidUser(heap, usr[i])
          /\ usr[i].favorites.first # INDET
          /\ UserStep("user_addFavorite", <<i, film>>, i,
                      user_addFavorite(Mem(heap, failAt), usr[i], film))

NextUser == UserInit \/ UserFree \/ UserAddFavorite

SpecUser == Init /\ [][NextUser]_vars

\* Stand-alone tUser objects driven through user_init, user_addFavorite and
\* user_cpy(&usr[i], &usr[j]).
UserCpy ==
    /\ ~ub
    /\ \E i \in 1..NUsers, j \in 1..NUsers, failAt \in FailAts(3) :
          /\ usr[i] # UninitUser
          /\ usr[j] # UninitUser
          /\ UserStep("user_cpy", <<i, j>>, i,
                      user_cpy(Mem(heap, failAt), usr[i], usr[j]))

NextCpy == UserInit \/ UserAddFavorite \/ UserCpy

SpecCpy == Init /\ [][NextCpy]_vars

\* One tUser, usr[1], driven through user_init, user_addFavorite and
\* user_getFavoriteGenre, every allocation succeeding.
InitGenre ==
    /\ heap = [p \in 1..GenreHeapSize |-> FreeBlock]
    /\ table = EmptyTable
    /\ usr = [i \in 1..NUsers |-> UninitUser]
    /\ op = NoOp
    /\ ub = FALSE
    /\ faults = 0
    /\ memFailed = FALSE
    /\ aux = NoAux

GenreUserInit ==
    /\ ~ub
    /\ usr[1] = UninitUser
    /\ \E user \in UserArgs :
          UserStep("user_init", <<1, user>>, 1,
                   user_init(Mem(heap, 0), usr[1], user.username, user.name, user.mail))

GenreAddFavorite ==
    /\ ~ub
    /\ ValidUser(heap, usr[1])
    /\ \E film \in Films :
          UserStep("user_addFavorite", <<1, film>>, 1,
                   user_addFavorite(Mem(heap, 0), usr[1], film))

\* The values the uninitialised maxOcurrences can hold: below every count,
\* among the counts, at or above every count.
Indeterminates == -1..MaxIndet

GetFavoriteGenre ==
    /\ ~ub
    /\ ValidUser(heap, usr[1])
    /\ \E maxOcurrences \in Indeterminates :
          UserStep("user_getFavoriteGenre", <<1, maxOcurrences>>, 1,
                   user_getFavoriteGenre(Mem(heap, 0), usr[1], maxOcurrences))

NextGenre == GenreUserInit \/ GenreAddFavorite \/ GetFavoriteGenre

SpecGenre == InitGenre /\ [][NextGenre]_vars

\* One tUser, usr[1], set up by user_init with a name of at most MaxNameLen
\* characters and normalised by user_trimCapitalizeName; the step records
\* whether the previous call was a successful user_trimCapitalizeName.
Chars == {" ", "\t", "a", "A", "1"}

TrimNames == UNION {[1..n -> Chars] : n \in 0..MaxNameLen}

TrimUserInit ==
    /\ ~ub
    /\ usr[1] = UninitUser
    /\ \E name \in TrimNames, failAt \in FailAts(3) :
          UserStep("user_init", <<1, name>>, 1,
                   user_init(Mem(heap, failAt), usr[1], <<"a">>, name, <<"m">>))

TrimCapitalizeName ==
    /\ ~ub
    /\ usr[1] # UninitUser
    /\ \E failAt \in FailAts(1) :
          UserStep("user_trimCapitalizeName",
                   <<1, op.name = "user_trimCapitalizeName" /\ op.ret = OK>>, 1,
                   user_trimCapitalizeName(Mem(heap, failAt), usr[1]))

NextTrim == TrimUserInit \/ TrimCapitalizeName

SpecTrim == Init /\ [][NextTrim]_vars

\* Two tables compared by userTable_equals: table in heap, and a second one,
\* aux.t, in a heap of its own, aux.h.  Both start empty and are built by at
\* most MaxBuildOps calls (aux.n counts them) of userTable_add,
\* userTable_remove and user_addFavorite (on the element userTable_find
\* returns), every allocation succeeding.
EqUsers == {u \in ArgUsers : u.username \in {<<"a">>, <<"b">>}}

EqUsernames == {u.username : u \in EqUsers}

NoUsers == [i \in 1..NUsers |-> UninitUser]

InitEq ==
    /\ heap = [p \in 1..HeapSize |-> FreeBlock]
    /\ table = EmptyTable
    /\ aux = [h |-> [p \in 1..HeapSize |-> FreeBlock], t |-> EmptyTable, n |-> 0]
    /\ usr = NoUsers
    /\ op = NoOp
    /\ ub = FALSE
    /\ faults = 0
    /\ memFailed = FALSE

\* A call on table 1 (side = 1) or on table 2 (side = 2) with result r.
EqStep(side, name, arg, r) ==
    /\ aux.n < MaxBuildOps
    /\ ~r.m.oom
    /\ ~r.m.ub
    /\ LET c == Canon(r.m.h, r.t, NoUsers) IN
          IF side = 1
          THEN /\ heap' = c.h
               /\ table' = c.t
               /\ aux' = [aux EXCEPT !.n = aux.n + 1]
          ELSE /\ aux' = [h |-> c.h, t |-> c.t, n |-> aux.n + 1]
               /\ UNCHANGED <<heap, table>>
    /\ op' = [name |-> name, arg |-> <<side, arg>>, ret |-> r.ret, failed |-> FALSE]
    /\ UNCHANGED <<usr, ub, faults, memFailed>>

EqAdd ==
    /\ ~ub
    /\ \E side \in {1, 2}, user \in EqUsers :
          LET h == IF side = 1 THEN heap ELSE aux.h
              t == IF side = 1 THEN table ELSE aux.t
          IN  EqStep(side, "add", user, userTable_add(Mem(h, 0), t, user))

EqRemove ==
    /\ ~ub
    /\ \E side \in {1, 2}, username \in EqUsernames :
          LET h == IF side = 1 THEN heap ELSE aux.h
              t == IF side = 1 THEN table ELSE aux.t
          IN  EqStep(side, "remove", username,
                     userTable_remove(Mem(h, 0), t, [username |-> username]))

EqAddFavorite ==
    /\ ~ub
    /\ \E side \in {1, 2}, username \in EqUsernames, film \in {[genre |-> 0]} :
          LET h == IF side = 1 THEN heap ELSE aux.h
              t == IF side = 1 THEN table ELSE aux.t
              f == userTable_find(h, t, username)
          IN  /\ ~f.ub
              /\ f.idx # 0
              /\ LET a == user_addFavorite(Mem(h, 0), h[t.elements].elems[f.idx], film)
                 IN  EqStep(side, "addFavorite", <<username, film>>,
                            [m |-> [a.m EXCEPT !.h[t.elements].elems[f.idx] = a.u],
                             t |-> t, ret |-> a.ret])

\* userTable_equals(table, aux) or, swapped, userTable_equals(aux, table).
EqualsCall ==
    /\ ~ub
    /\ \E swapped \in BOOLEAN :
          LET r == IF swapped THEN userTable_equals(aux.h, aux.t, heap, table)
                   ELSE userTable_equals(heap, table, aux.h, aux.t)
          IN  /\ ub' = r.ub
              /\ op' = [name |-> "equals", arg |-> swapped,
                        ret |-> IF r.ub THEN "UB" ELSE IF r.ret THEN "true" ELSE "false",
                        failed |-> FALSE]
    /\ UNCHANGED <<heap, table, usr, faults, memFailed, aux>>

NextEq == EqAdd \/ EqRemove \/ EqAddFavorite \/ EqualsCall

SpecEq == InitEq /\ [][NextEq]_vars

\* ------------------------------------------------------ views of the state
Live(h) == {p \in DOMAIN h : h[p].live}

\* The three texts a tUser's pointers lead to.
TextOf(h, u) ==
    [username |-> h[u.username].text, name |-> h[u.name].text,
     mail |-> h[u.mail].text]

\* The table holds size completely initialised users in a block of size slots.
WellFormed(h, t) ==
    \/ t.size = 0 /\ t.elements = NULL
    \/ /\ t.size > 0
       /\ Slot(h, t, t.size)
       /\ Len(h[t.elements].elems) = t.size
       /\ \A i \in 1..t.size :
             /\ ValidUser(h, h[t.elements].elems[i])
             /\ h[t.elements].elems[i].favorites.first \in (DOMAIN h) \cup {NULL}

\* The users of a well-formed table, in table order, as texts.
View(h, t) == [i \in 1..t.size |-> TextOf(h, h[t.elements].elems[i])]

UsernamesOf(h, t) == {View(h, t)[i].username : i \in 1..t.size}

\* sq without its k-th element
Without(sq, k) ==
    [i \in 1..(Len(sq) - 1) |-> IF i < k THEN sq[i] ELSE sq[i + 1]]

\* ------------------------------------------------------------------ claims

\* C1: as long as no allocation has failed, the table reached through any
\* sequence of userTable_init / add / remove / free calls is well formed and
\* no two of its elements have the same username.
C1_UniqueUsernames ==
    ~memFailed =>
        /\ WellFormed(heap, table)
        /\ \A i, j \in 1..table.size :
              i # j => View(heap, table)[i].username # View(heap, table)[j].username

C1_Witness ==
    /\ ~memFailed
    /\ table.size = 3
    /\ op.name = "add"
    /\ op.ret = ERR_DUPLICATED

\* C2: userTable_add of a user whose username is not in the table, with every
\* allocation succeeding, returns OK, grows size by one, keeps the earlier
\* elements in place with their fields, puts the new user last, and
\* userTable_find of its username then returns an element user_equals to it.
C2_AddAppends ==
    [][(/\ op'.name = "add"
        /\ ~memFailed
        /\ ~op'.failed
        /\ op'.arg.username \notin UsernamesOf(heap, table))
       => /\ op'.ret = OK
          /\ table'.size = table.size + 1
          /\ WellFormed(heap', table')
          /\ SubSeq(View(heap', table'), 1, table.size) = View(heap, table)
          /\ View(heap', table')[table'.size] = op'.arg
          /\ LET f == userTable_find(heap', table', op'.arg.username) IN
                /\ ~f.ub
                /\ f.idx = table'.size
                /\ user_equals(View(heap', table')[f.idx], op'.arg)]_vars

C2_Witness ==
    /\ op.name = "add"
    /\ op.ret = OK
    /\ ~memFailed
    /\ table.size = 3
    /\ View(heap, table)[3] = op.arg

\* C3: userTable_add of a user whose username is already in the table returns
\* ERR_DUPLICATED and changes neither the table nor the heap.
C3_AddDuplicated ==
    [][(/\ op'.name = "add"
        /\ ~memFailed
        /\ op'.arg.username \in UsernamesOf(heap, table))
       => /\ op'.ret = ERR_DUPLICATED
          /\ ~op'.failed
          /\ table' = table
          /\ heap' = heap]_vars

C3_Witness ==
    /\ op.name = "add"
    /\ op.ret = ERR_DUPLICATED
    /\ table.size = 2
    /\ View(heap, table)[2].username = op.arg.username

\* C4: userTable_remove of a username that is in the table, with every
\* allocation succeeding, returns OK, shrinks size by one, makes
\* userTable_find of that username return NULL, and leaves the other elements
\* in their previous order with their username, name and mail.
C4_RemovePresent ==
    [][(/\ op'.name = "remove"
        /\ ~memFailed
        /\ ~op'.failed
        /\ op'.arg \in UsernamesOf(heap, table))
       => /\ op'.ret = OK
          /\ table'.size = table.size - 1
          /\ WellFormed(heap', table')
          /\ userTable_find(heap', table', op'.arg) = [ub |-> FALSE, idx |-> 0]
          /\ \E k \in 1..table.size :
                /\ View(heap, table)[k].username = op'.arg
                /\ View(heap', table') = Without(View(heap, table), k)]_vars

C4_Witness ==
    /\ op.name = "remove"
    /\ op.ret = OK
    /\ ~memFailed
    /\ table.size = 2
    /\ View(heap, table)[1].username = <<"a">>
    /\ View(heap, table)[2].username = <<"c">>
    /\ op.arg = <<"b">>

\* C5: userTable_remove of a username that is not in the table returns
\* ERR_NOT_FOUND and leaves the table and every block of the heap as they were.
C5_RemoveAbsent ==
    [][(/\ op'.name = "remove"
        /\ ~memFailed
        /\ op'.arg \notin UsernamesOf(heap, table))
       => /\ op'.ret = ERR_NOT_FOUND
          /\ ~op'.failed
          /\ table' = table
          /\ heap' = heap]_vars

C5_Witness ==
    /\ op.name = "remove"
    /\ op.ret = ERR_NOT_FOUND
    /\ table.size = 2

\* C6: when the malloc or realloc that grows the storage fails, userTable_add
\* returns ERR_MEMORY_ERROR and leaves the table as it was: same size, same
\* elements still reachable.
C6_AddFailureKeepsTable ==
    [][(/\ op'.name = "add"
        /\ ~memFailed
        /\ op'.ret = ERR_MEMORY_ERROR)
       => /\ op'.failed
          /\ table'.size = table.size
          /\ WellFormed(heap', table')
          /\ View(heap', table') = View(heap, table)]_vars

\* C7: in every state, size is the number of slots of the backing block, and
\* size is 0 exactly when the elements pointer is NULL.
C7_SizeMatchesStorage ==
    /\ (table.size = 0) <=> (table.elements = NULL)
    /\ table.elements # NULL =>
          /\ table.elements \in Ids
          /\ heap[table.elements].live
          /\ Len(heap[table.elements].elems) = table.size

\* C8: a successful userTable_remove on a table that owns every live block
\* leaves exactly the survivors' strings and one backing block live (nothing
\* at all when the table becomes empty).
C8_RemoveReleases ==
    [][(/\ op'.name = "remove"
        /\ op'.ret = OK
        /\ ~memFailed
        /\ ~op'.failed
        /\ Live(heap) = Range(TableBlocks(heap, table)))
       => /\ Live(heap') = Range(TableBlocks(heap', table'))
          /\ Cardinality(Live(heap')) =
                IF table'.size = 0 THEN 0 ELSE 3 * table'.size + 1]_vars

\* C9: userTable_free releases every block the table leads to (the backing
\* block, each user's three strings and each user's favorites nodes) and
\* leaves the table empty.
C9_TableFreeReleasesAll ==
    [][(op'.name = "tfree" /\ ~ub')
       => /\ table' = EmptyTable
          /\ Cardinality(Live(heap')) =
                Cardinality(Live(heap)) - Cardinality(Range(TableBlocks(heap, table)))]_vars

\* A tUser that user_init set up completely, or that user_free has released.
Usable(h, u) ==
    \/ ValidUser(h, u) /\ u.favorites.first \in (DOMAIN h) \cup {NULL}
    \/ Freed(u)

\* The favorites of a tUser, first to be popped first.
Favs(h, u) ==
    LET c == Chain(h, u.favorites.first, HeapSize) IN
    [k \in 1..Len(c) |-> h[c[k]].e]

\* C10: user_free on a user set up by user_init releases its three strings and
\* its favorites nodes and nothing else, leaves the user in the freed state
\* and the other users as they were; on a user already freed it releases
\* nothing and changes nothing, without undefined behaviour.
C10_UserFree ==
    [][(/\ op'.name = "user_free"
        /\ Usable(heap, usr[op'.arg[1]]))
       => LET i == op'.arg[1] IN
          /\ ~ub'
          /\ Freed(usr'[i])
          /\ Range(UserBlocks(heap', usr'[i])) = {}
          /\ Cardinality(Live(heap')) =
                Cardinality(Live(heap)) - Cardinality(Range(UserBlocks(heap, usr[i])))
          /\ \A j \in 1..NUsers \ {i} :
                ValidUser(heap, usr[j]) =>
                   /\ ValidUser(heap', usr'[j])
                   /\ TextOf(heap', usr'[j]) = TextOf(heap, usr[j])
                   /\ Favs(heap', usr'[j]) = Favs(heap, usr[j])
          /\ Freed(usr[i]) => heap' = heap /\ usr' = usr]_vars

\* user_free called a second time on a user that had favorites.
C10_Witness ==
    /\ op.name = "user_free"
    /\ op.arg[2] = TRUE
    /\ ~ub
    /\ Freed(usr[op.arg[1]])
    /\ \E p \in Ids : heap[p].live /\ heap[p].kind = "fav"

\* C11: for two tables built by add / remove / addFavorite,
\* userTable_equals is true exactly when the sizes are equal and every
\* username of the second table is in the first, whatever the order, the
\* names, the mails and the favorites; the call with the tables exchanged
\* gives the same result.
C11_TablesEqual ==
    op.name = "equals" =>
        /\ ~ub
        /\ (op.ret = "true") <=>
              /\ table.size = aux.t.size
              /\ UsernamesOf(aux.h, aux.t) \subseteq UsernamesOf(heap, table)

\* Equal tables with the two users in opposite order and different names,
\* compared with the operands exchanged.
C11_Witness ==
    /\ op.name = "equals"
    /\ op.arg = TRUE
    /\ op.ret = "true"
    /\ table.size = 2
    /\ View(heap, table)[1].username = View(aux.h, aux.t)[2].username
    /\ View(heap, table)[1].name # View(aux.h, aux.t)[2].name

\* The block ids of the three strings of a tUser.
Strings(u) == {u.username, u.name, u.mail}

\* C12: user_cpy(dst, src) on two distinct users set up by user_init, with
\* every allocation succeeding, returns OK and leaves dst with three strings
\* of its own holding src's texts, dst's previous strings (and favorites
\* nodes) released, dst's favorites empty whatever src's favorites hold, and
\* src's strings and favorites as they were.
C12_UserCpy ==
    [][(/\ op'.name = "user_cpy"
        /\ ~op'.failed
        /\ op'.arg[1] # op'.arg[2]
        /\ ValidUser(heap, usr[op'.arg[1]])
        /\ ValidUser(heap, usr[op'.arg[2]]))
       => LET i == op'.arg[1]
              j == op'.arg[2]
          IN  /\ ~ub'
              /\ op'.ret = OK
              /\ ValidUser(heap', usr'[i])
              /\ TextOf(heap', usr'[i]) = TextOf(heap, usr[j])
              /\ Cardinality(Strings(usr'[i])) = 3
              /\ Strings(usr'[i]) \cap Strings(usr'[j]) = {}
              /\ Cardinality(Live(heap')) =
                    Cardinality(Live(heap))
                       - Cardinality(Range(UserBlocks(heap, usr[i]))) + 3
              /\ favoriteStack_empty(usr'[i].favorites)
              /\ ValidUser(heap', usr'[j])
              /\ TextOf(heap', usr'[j]) = TextOf(heap, usr[j])
              /\ Favs(heap', usr'[j]) = Favs(heap, usr[j])]_vars

\* user_cpy has copied a user that holds a favorite, into a user whose one
\* favorite (its tFavorite block remains) it dropped.
C12_Witness ==
    /\ op.name = "user_cpy"
    /\ ~op.failed
    /\ ~ub
    /\ op.arg[1] # op.arg[2]
    /\ ValidUser(heap, usr[op.arg[1]])
    /\ Len(Favs(heap, usr[op.arg[2]])) = 1
    /\ favoriteStack_empty(usr[op.arg[1]].favorites)
    /\ Cardinality({p \in Ids : heap[p].live /\ heap[p].kind = "fav"}) = 2

\* C13: whenever userTable_add or userTable_remove (through user_cpy) has
\* returned OK, a failed string allocation inside user_init included, every
\* element counted by size has its username, name and mail allocated and
\* holding the copied text.
C13_ElementsInitialised ==
    (~ub /\ op.name \in {"add", "remove"} /\ op.ret = OK)
       => \A i \in 1..table.size :
             /\ Slot(heap, table, i)
             /\ ValidUser(heap, heap[table.elements].elems[i])

\* C14: user_getFavoriteGenre on a user with no favorites returns
\* GENRE_NOT_FOUND whatever value the uninitialised maximum holds.
C14_EmptyGivesNotFound ==
    [][(/\ op'.name = "user_getFavoriteGenre"
        /\ favoriteStack_empty(usr[1].favorites))
       => op'.ret = GENRE_NOT_FOUND]_vars

\* Number of entries of genre g in the favorites f (in pop order).
Count(f, g) == Cardinality({k \in 1..Len(f) : f[k].genre = g})

\* The genres with the maximum number of entries in f.
MaxGenres(f) ==
    {g \in 0..(NumGenres - 1) :
        Count(f, g) > 0 /\ \A g2 \in 0..(NumGenres - 1) : Count(f, g) >= Count(f, g2)}

\* Position of the first entry of genre g in pop order.
FirstAt(f, g) == CHOOSE k \in 1..Len(f) : f[k].genre = g /\ \A j \in 1..(k - 1) : f[j].genre # g

\* The genre with the maximum count that the traversal reaches first.
Winner(f) ==
    CHOOSE g \in MaxGenres(f) : \A g2 \in MaxGenres(f) : FirstAt(f, g) <= FirstAt(f, g2)

\* C15: on a non-empty favorites stack user_getFavoriteGenre returns a genre
\* with the maximum number of entries and, among several such genres, the
\* one reached first in pop order.
C15_MostFrequentGenre ==
    [][(/\ op'.name = "user_getFavoriteGenre"
        /\ ~favoriteStack_empty(usr[1].favorites))
       => /\ ~ub'
          /\ op'.ret = Winner(Favs(heap, usr[1]))]_vars

\* C16: user_getFavoriteGenre leaves the user as it was: the favorites hold
\* the same entries in the same order, username, name and mail hold the same
\* texts, and no block stays allocated or is released by the call.
C16_GenreKeepsUser ==
    [][op'.name = "user_getFavoriteGenre"
       => /\ ~ub'
          /\ ValidUser(heap', usr'[1])
          /\ TextOf(heap', usr'[1]) = TextOf(heap, usr[1])
          /\ Favs(heap', usr'[1]) = Favs(heap, usr[1])
          /\ Cardinality(Live(heap')) = Cardinality(Live(heap))]_vars

\* user_getFavoriteGenre has been called on a user with three favorites of
\* two genres.
C16_Witness ==
    /\ op.name = "user_getFavoriteGenre"
    /\ ~ub
    /\ Len(Favs(heap, usr[1])) = 3
    /\ Cardinality({Favs(heap, usr[1])[k].genre : k \in 1..3}) = 2

\* The positions of the non-blank characters of a name.
NonBlanks(name) == {k \in 1..Len(name) : ~isblank(name[k])}

Min(S) == CHOOSE x \in S : \A y \in S : x <= y

Max(S) == CHOOSE x \in S : \A y \in S : x >= y

\* The text between the first and the last non-blank character.
Trimmed(name) == SubSeq(name, Min(NonBlanks(name)), Max(NonBlanks(name)))

\* Every blank kept, the first character of each word in upper case, the
\* others in lower case.
Capitalized(name) ==
    [k \in 1..Len(name) |->
        IF isblank(name[k]) THEN name[k]
        ELSE IF k = 1 THEN toupper(name[k])
        ELSE IF isblank(name[k - 1]) THEN toupper(name[k])
        ELSE tolower(name[k])]

\* C17: on a name with at least one non-blank character, with the allocation
\* succeeding, user_trimCapitalizeName returns OK and replaces name by the
\* text between its first and last non-blank characters, interior blanks
\* kept, each word's first character in upper case and its other characters
\* in lower case, username and mail untouched; a second call right after a
\* successful one leaves the name as it is.
C17_TrimCapitalize ==
    [][(/\ op'.name = "user_trimCapitalizeName"
        /\ ~op'.failed
        /\ ValidUser(heap, usr[1])
        /\ NonBlanks(TextOf(heap, usr[1]).name) # {})
       => /\ ~ub'
          /\ op'.ret = OK
          /\ ValidUser(heap', usr'[1])
          /\ TextOf(heap', usr'[1]) =
                [TextOf(heap, usr[1]) EXCEPT
                    !.name = Capitalized(Trimmed(TextOf(heap, usr[1]).name))]
          /\ op'.arg[2] => TextOf(heap', usr'[1]) = TextOf(heap, usr[1])]_vars

\* user_trimCapitalizeName has been applied a second time, to the name of two
\* words it had produced.
C17_Witness ==
    /\ op.name = "user_trimCapitalizeName"
    /\ op.arg[2] = TRUE
    /\ op.ret = OK
    /\ ~ub
    /\ TextOf(heap, usr[1]).name = <<"A", "\t", "A", "a">>

\* C18: a userTable_remove call in which an allocation failed and that still
\* holds a block of elements afterwards (so the failure was not the final
\* realloc but a string of user_init inside the user_cpy shift) returns
\* ERR_MEMORY_ERROR.
C18_RemoveStopsOnFailure ==
    [][(/\ op'.name = "remove"
        /\ op'.failed
        /\ ~ub'
        /\ table'.elements # NULL)
       => op'.ret = ERR_MEMORY_ERROR]_vars

\* The favorites, in pop order, of the user userTable_find returns.
FavsOf(h, t, username) ==
    Favs(h, h[t.elements].elems[userTable_find(h, t, username).idx])

\* C19: a userTable_remove that returns OK leaves the favorites of every
\* other user of the table, found through userTable_find, as they were,
\* wherever that user is stored.
C19_RemoveKeepsFavorites ==
    [][(/\ op'.name = "remove"
        /\ op'.ret = OK
        /\ ~ub'
        /\ WellFormed(heap, table))
       => \A username \in UsernamesOf(heap, table) \ {op'.arg} :
             /\ userTable_find(heap', table', username).idx # 0
             /\ FavsOf(heap', table', username) = FavsOf(heap, table, username)]_vars

\* C20: once user_free has run and every user that was set up is released,
\* with no allocation having failed, no block allocated by user_addFavorite
\* (the tFavorite it mallocs, the node pushed on the stack) is still live.
C20_AddFavoriteReleased ==
    (/\ op.name = "user_free"
     /\ ~ub
     /\ ~memFailed
     /\ \A i \in 1..NUsers : usr[i] = UninitUser \/ Freed(usr[i]))
       => \A p \in Ids : heap[p].live => heap[p].kind \notin {"fav", "node"}

====
